---- MODULE Spec2Model ----
(***************************************************************************)
(* HomeWhiz custom integration: the config flow that creates a config      *)
(* entry, the stored entry data (asdict of EntryData), build_entry_data    *)
(* that rebuilds EntryData from storage, and the three platform setups     *)
(* (sensor, switch, binary_sensor) that turn an entry into entities.       *)
(*                                                                         *)
(* Python values are tagged records: None, str, bool, int, list, dict and  *)
(* dataclass instances ("obj" with a class name and a field map).          *)
(***************************************************************************)
EXTENDS Integers, Sequences, FiniteSets, TLC

VARIABLES flow, result, entry, orig, setup

vars == <<flow, result, entry, orig, setup>>

(* ------------------------------ bounds -------------------------------- *)

\* Longest list of controls generate_controls_from_config returns in the model.
MaxControls == 2

\* Longest subPrograms / monitorings / commands list of a fetched configuration.
MaxFeatures == 1

(* --------------------------- Python values ---------------------------- *)

None == [t |-> "None"]

Str(s) == [t |-> "str", v |-> s]

Bool(b) == [t |-> "bool", v |-> b]

IntV(i) == [t |-> "int", v |-> i]

List(s) == [t |-> "list", v |-> s]

Dict(f) == [t |-> "dict", v |-> f]

Obj(cls, f) == [t |-> "obj", cls |-> cls, v |-> f]

EmptyDict == Dict([k \in {} |-> None])

\* d.get(key, default) on a stored dict
Get(d, key, default) == IF key \in DOMAIN d.v THEN d.v[key] ELSE default

\* isinstance(x, dict)
IsDict(x) == x.t = "dict"

(* ----------------------- dataclass declarations ----------------------- *)

\* Field types: [k |-> kind, opt |-> may be None, cls / of for nested types]
TStr == [k |-> "str", opt |-> FALSE]

TDict == [k |-> "dict", opt |-> FALSE]

TCls(c) == [k |-> "cls", opt |-> FALSE, cls |-> c]

TOptCls(c) == [k |-> "cls", opt |-> TRUE, cls |-> c]

TOptList(c) == [k |-> "list", opt |-> TRUE, cls |-> c]

CloudConfig == [username |-> TStr, password |-> TStr]

IdExchangeResponse == [appId |-> TStr]

ApplianceInfo == [applianceId |-> TStr, name |-> TStr, connectivity |-> TStr]

ApplianceFeature == [strKey |-> TStr]

ApplianceConfiguration ==
    [program |-> TOptCls("ApplianceFeature"),
     subPrograms |-> TOptList("ApplianceFeature"),
     monitorings |-> TOptList("ApplianceFeature"),
     deviceStates |-> TOptCls("ApplianceFeature"),
     commands |-> TOptList("ApplianceFeature"),
     appliances |-> TOptList("ApplianceFeature"),
     functions |-> TOptList("ApplianceFeature"),
     controls |-> TOptList("ApplianceFeature")]

ApplianceContents ==
    [config |-> TCls("ApplianceConfiguration"), localization |-> TDict]

Schema(cls) ==
    CASE cls = "CloudConfig" -> CloudConfig
      [] cls = "IdExchangeResponse" -> IdExchangeResponse
      [] cls = "ApplianceInfo" -> ApplianceInfo
      [] cls = "ApplianceFeature" -> ApplianceFeature
      [] cls = "ApplianceConfiguration" -> ApplianceConfiguration
      [] cls = "ApplianceContents" -> ApplianceContents

(* ------------------------- asdict / from_dict ------------------------- *)

RECURSIVE asdict(_)
\* dataclasses.asdict: dataclass instances become dicts of their fields,
\* recursively through lists and dicts; other values are kept.
asdict(x) ==
    CASE x.t = "obj" -> Dict([k \in DOMAIN x.v |-> asdict(x.v[k])])
      [] x.t = "dict" -> Dict([k \in DOMAIN x.v |-> asdict(x.v[k])])
      [] x.t = "list" -> List([i \in DOMAIN x.v |-> asdict(x.v[i])])
      [] OTHER -> x

Raised == [ok |-> FALSE]

Ok(v) == [ok |-> TRUE, v |-> v]

RECURSIVE from_dict(_, _)
RECURSIVE BuildValue(_, _)
\* dacite's conversion of one field value to its declared type; raises on a
\* value of the wrong type.
BuildValue(ty, x) ==
    IF x.t = "None" THEN (IF ty.opt THEN Ok(None) ELSE Raised)
    ELSE CASE ty.k = "str" -> IF x.t = "str" THEN Ok(x) ELSE Raised
           [] ty.k = "dict" -> IF x.t = "dict" THEN Ok(x) ELSE Raised
           [] ty.k = "cls" -> IF x.t = "dict" THEN from_dict(ty.cls, x) ELSE Raised
           [] ty.k = "list" ->
                IF x.t # "list" THEN Raised
                ELSE LET items == [i \in DOMAIN x.v |->
                                     IF x.v[i].t = "dict"
                                     THEN from_dict(ty.cls, x.v[i]) ELSE Raised]
                     IN  IF \A i \in DOMAIN items : items[i].ok
                         THEN Ok(List([i \in DOMAIN items |-> items[i].v]))
                         ELSE Raised

\* dacite.from_dict(cls, data): data must be a mapping; every declared field is
\* built from data[name]; a missing Optional field becomes None, a missing
\* required field raises; keys that are no field are ignored.
from_dict(cls, data) ==
    IF data.t # "dict" THEN Raised
    ELSE LET sch == Schema(cls)
             built == [f \in DOMAIN sch |->
                         IF f \in DOMAIN data.v THEN BuildValue(sch[f], data.v[f])
                         ELSE IF sch[f].opt THEN Ok(None) ELSE Raised]
         IN  IF \A f \in DOMAIN sch : built[f].ok
             THEN Ok(Obj(cls, [f \in DOMAIN sch |-> built[f].v]))
             ELSE Raised

(* --------------------------- helper.py -------------------------------- *)

\* getattr(o, name, None)
GetAttr(o, name) == IF o.t = "obj" /\ name \in DOMAIN o.v THEN o.v[name] ELSE None

\* The dict literal of the fallback: {"appliances": [], "functions": [], "controls": []}
MinimalConfigDict ==
    Dict([appliances |-> List(<<>>), functions |-> List(<<>>), controls |-> List(<<>>)])

\* The except-branch of the config reconstruction: the failure is swallowed
\* and the minimal configuration is built instead.
ConfigFallback == from_dict("ApplianceConfiguration", MinimalConfigDict)

\* ReconstructConfig without the try/except around from_dict
ReconstructConfig_Propagate(contents_dict) ==
    LET config_dict == Get(contents_dict, "config", None)
    IN  IF config_dict # None /\ IsDict(config_dict)
        THEN from_dict("ApplianceConfiguration", config_dict)
        ELSE from_dict("ApplianceConfiguration", MinimalConfigDict)

\* helper.py lines 41-64: the configuration of a dict-shaped contents
ReconstructConfig(contents_dict) ==
    LET config_dict == Get(contents_dict, "config", None)
    IN  IF config_dict # None /\ IsDict(config_dict)
        THEN LET config == from_dict("ApplianceConfiguration", config_dict)
             IN  IF config.ok THEN config ELSE ConfigFallback
        ELSE from_dict("ApplianceConfiguration", MinimalConfigDict)

\* helper.py lines 37-91: contents is rebuilt as an ApplianceContents object
ReconstructContents(contents_dict) ==
    IF IsDict(contents_dict)
    THEN LET config == ReconstructConfig(contents_dict)
             localization == Get(contents_dict, "localization", EmptyDict)
         IN  IF config.ok
             THEN Ok(Obj("ApplianceContents",
                         [config |-> config.v, localization |-> localization]))
             ELSE Raised
    ELSE LET direct == from_dict("ApplianceContents", contents_dict)
             minimal == from_dict("ApplianceConfiguration", MinimalConfigDict)
         IN  IF direct.ok THEN direct
             ELSE IF minimal.ok
                  THEN Ok(Obj("ApplianceContents",
                              [config |-> minimal.v, localization |-> EmptyDict]))
                  ELSE Raised

\* entry_data.get("config_missing", False)
StoredConfigMissing(entry_data) == Get(entry_data, "config_missing", Bool(FALSE))

\* build_entry_data that never reconstructs cloud_config
build_entry_data_NoCloudConfig(e) ==
    LET entry_data == e.data
        ids == from_dict("IdExchangeResponse", entry_data.v["ids"])
        contents == ReconstructContents(entry_data.v["contents"])
        appliance_info ==
            IF Get(entry_data, "appliance_info", None) # None
            THEN from_dict("ApplianceInfo", entry_data.v["appliance_info"])
            ELSE Ok(None)
    IN  IF ids.ok /\ contents.ok /\ appliance_info.ok
        THEN Ok(Obj("EntryData",
                    [ids |-> ids.v,
                     contents |-> contents.v,
                     appliance_info |-> appliance_info.v,
                     cloud_config |-> None,
                     config_missing |-> StoredConfigMissing(entry_data)]))
        ELSE Raised

\* build_entry_data(entry): Ok(EntryData) or Raised when an exception leaves it
build_entry_data(e) ==
    LET entry_data == e.data
        ids == from_dict("IdExchangeResponse", entry_data.v["ids"])
        cloud_config ==
            IF Get(entry_data, "cloud_config", None) # None
            THEN from_dict("CloudConfig", entry_data.v["cloud_config"])
            ELSE Ok(None)
        contents == ReconstructContents(entry_data.v["contents"])
        appliance_info ==
            IF Get(entry_data, "appliance_info", None) # None
            THEN from_dict("ApplianceInfo", entry_data.v["appliance_info"])
            ELSE Ok(None)
        config_missing == StoredConfigMissing(entry_data)
    IN  IF ids.ok /\ cloud_config.ok /\ contents.ok /\ appliance_info.ok
        THEN Ok(Obj("EntryData",
                    [ids |-> ids.v,
                     contents |-> contents.v,
                     appliance_info |-> appliance_info.v,
                     cloud_config |-> cloud_config.v,
                     config_missing |-> config_missing]))
        ELSE Raised

(* --------------------------- config_flow.py --------------------------- *)

\* has_real_config that forgets the commands clause
has_real_config_NoCommands(contents) ==
    LET config == GetAttr(contents, "config")
    IN  \/ GetAttr(config, "program") # None
        \/ (GetAttr(config, "subPrograms") # None /\ Len(config.v.subPrograms.v) > 0)
        \/ (GetAttr(config, "monitorings") # None /\ Len(config.v.monitorings.v) > 0)
        \/ GetAttr(config, "deviceStates") # None

\* has_real_config(contents)
has_real_config(contents) ==
    LET config == GetAttr(contents, "config")
    IN  \/ GetAttr(config, "program") # None
        \/ (GetAttr(config, "subPrograms") # None /\ Len(config.v.subPrograms.v) > 0)
        \/ (GetAttr(config, "monitorings") # None /\ Len(config.v.monitorings.v) > 0)
        \/ GetAttr(config, "deviceStates") # None
        \/ GetAttr(config, "commands") # None

\* EntryData(ids=..., contents=..., appliance_info=..., cloud_config=..., config_missing=...)
EntryData(ids, contents, appliance_info, cloud_config, config_missing) ==
    Obj("EntryData",
        [ids |-> ids,
         contents |-> contents,
         appliance_info |-> appliance_info,
         cloud_config |-> cloud_config,
         config_missing |-> Bool(config_missing)])

(* ----------------- the cloud API as the flow sees it ------------------ *)

\* An awaited API call either returns a value or raises LoginError / RequestError.
Returns(v) == [exc |-> "none", v |-> v]

Raises(e) == [exc |-> e]

Feature(key) == Obj("ApplianceFeature", [strKey |-> Str(key)])

\* None or a list of at most MaxFeatures features
FeatureLists ==
    {None} \cup {List([i \in 1..n |-> Feature("f")]) : n \in 0..MaxFeatures}

\* The configurations fetch_appliance_contents can deliver
FetchedConfigs ==
    {Obj("ApplianceConfiguration",
         [program |-> p, subPrograms |-> sp, monitorings |-> m,
          deviceStates |-> ds, commands |-> c,
          appliances |-> None, functions |-> None, controls |-> None]) :
        p \in {None, Feature("program")}, sp \in FeatureLists, m \in FeatureLists,
        ds \in {None, Feature("state")}, c \in FeatureLists}

Localization == Dict([hello |-> Str("Hello")])

FetchedContents ==
    {Obj("ApplianceContents", [config |-> c, localization |-> Localization]) :
        c \in FetchedConfigs}

Info(id, name, conn) ==
    Obj("ApplianceInfo",
        [applianceId |-> Str(id), name |-> Str(name), connectivity |-> Str(conn)])

WasherInfo == Info("a1", "Washer", "BT")

PurifierInfo == Info("a2", "Purifier", "WIFI")

\* The lists fetch_appliance_infos can deliver
InfoLists ==
    {List(<<>>), List(<<WasherInfo>>), List(<<PurifierInfo>>),
     List(<<WasherInfo, PurifierInfo>>)}

LoginOutcomes == {Returns(Str("token")), Raises("LoginError"), Raises("RequestError")}

IdExchangeOutcomes ==
    {Returns(Obj("IdExchangeResponse", [appId |-> Str("a1")])), Raises("RequestError")}

ContentsOutcomes == {Returns(c) : c \in FetchedContents} \cup {Raises("RequestError")}

InfosOutcomes == {Returns(l) : l \in InfoLists} \cup {Raises("RequestError")}

IndexOutcomes == {Returns(Str("index")), Raises("RequestError")}

LocalizationOutcomes == {Returns(Localization), Raises("RequestError")}

\* Bluetooth advertisements: address -> name
Advertised == [AA |-> "HwZ_Washer", BB |-> "Other"]

\* name.startswith("HwZ")
StartsWithHwZ(name) == name \in {"HwZ_Washer"}

UserInputs == {[username |-> "user", password |-> "secret"]}

(* ----------------------------- flow results --------------------------- *)

NoErrors == "none"

FormResult(step_id, errors, calls) ==
    [type |-> "form", step_id |-> step_id, errors |-> errors, calls |-> calls]

MenuResult(step_id) == [type |-> "menu", step_id |-> step_id, calls |-> <<>>]

AbortResult(reason, calls) == [type |-> "abort", reason |-> reason, calls |-> calls]

CreateEntryResult(title, data, calls) ==
    [type |-> "create_entry", title |-> title, data |-> data, calls |-> calls]

\* A step returns the flow object, the result and the EntryData it stored
Outcome(self, res, data) == [self |-> self, result |-> res, data |-> data]

\* The except clauses with their messages exchanged
ErrorFor_Swapped(exc) == IF exc = "LoginError" THEN "cannot_connect" ELSE "invalid_auth"

\* The except clauses of the credential steps
ErrorFor(exc) == IF exc = "LoginError" THEN "invalid_auth" ELSE "cannot_connect"

\* One awaited call in the log of a step
Call(name, out) == <<name, out.exc>>

\* The same, with the value the call returned
CallV(name, out) == <<name, out.exc, IF out.exc = "none" THEN out.v ELSE None>>

\* TiltConfigFlow.__init__
NewFlowObject ==
    [step |-> "init",
     discovered_bt_devices |-> {},
     bt_address |-> None,
     bt_name |-> None,
     cloud_config |-> None,
     cloud_credentials |-> None,
     cloud_appliances |-> None]

\* next((ai for ai in appliance_infos if ai.applianceId == app_id), None)
FindAppliance(infos, app_id) ==
    LET hits == {i \in DOMAIN infos.v : infos.v[i].v.applianceId = app_id}
    IN  IF hits = {} THEN None
        ELSE infos.v[CHOOSE i \in hits : \A j \in hits : i <= j]

(* ------------------------- config flow steps -------------------------- *)

\* self.async_create_entry(title=..., data=asdict(data))
CreateEntry(self, title, data, calls) ==
    Outcome([self EXCEPT !.step = "done"],
            CreateEntryResult(title, asdict(data), calls), data)

\* self.async_abort(reason=...), also AbortFlow raised by _abort_if_unique_id_configured
Abort(self, reason, calls) ==
    Outcome([self EXCEPT !.step = "done"], AbortResult(reason, calls), None)

\* self.async_show_form(step_id=..., errors=errors)
ShowForm(self, step_id, errors, calls) ==
    Outcome([self EXCEPT !.step = step_id], FormResult(step_id, errors, calls), None)

\* The try body of async_step_bluetooth_connect after the four awaited calls
BluetoothCreateEntry(self, id_response, contents, appliance_infos, calls) ==
    LET appliance_info == FindAppliance(appliance_infos, id_response.v.appId)
        _has_config == has_real_config(contents)
        data == EntryData(id_response, contents, appliance_info, None, ~_has_config)
        title == IF appliance_info # None THEN appliance_info.v.name ELSE self.bt_name
    IN  CreateEntry(self, title, data, calls)

\* async_step_bluetooth_connect(user_input)
async_step_bluetooth_connect(self, user_input, env) ==
    IF user_input = None THEN ShowForm(self, "bluetooth_connect", NoErrors, <<>>)
    ELSE IF env.configured THEN Abort(self, "already_configured", <<>>)
    ELSE LET c1 == <<Call("login", env.login)>>
             c2 == Append(c1, Call("make_id_exchange_request", env.idx))
             c3 == Append(c2, Call("fetch_appliance_contents", env.contents))
             c4 == Append(c3, Call("fetch_appliance_infos", env.infos))
         IN  IF env.login.exc # "none"
             THEN ShowForm(self, "bluetooth_connect", ErrorFor(env.login.exc), c1)
             ELSE IF env.idx.exc # "none"
             THEN ShowForm(self, "bluetooth_connect", ErrorFor(env.idx.exc), c2)
             ELSE IF env.contents.exc # "none"
             THEN ShowForm(self, "bluetooth_connect", ErrorFor(env.contents.exc), c3)
             ELSE IF env.infos.exc # "none"
             THEN ShowForm(self, "bluetooth_connect", ErrorFor(env.infos.exc), c4)
             ELSE BluetoothCreateEntry(self, env.idx.v, env.contents.v, env.infos.v, c4)

\* async_step_bluetooth(discovery_info)
async_step_bluetooth(self, address, env) ==
    IF env.configured THEN Abort(self, "already_configured", <<>>)
    ELSE IF ~StartsWithHwZ(Advertised[address]) THEN Abort(self, "not_supported", <<>>)
    ELSE async_step_bluetooth_connect(
             [self EXCEPT !.bt_address = Str(address),
                          !.bt_name = Str(Advertised[address])],
             None, env)

\* async_step_user
async_step_user(self) == Outcome([self EXCEPT !.step = "user"], MenuResult("user"), None)

\* async_step_select_bluetooth_device(user_input)
async_step_select_bluetooth_device(self, user_input, env) ==
    IF user_input # None
    THEN async_step_bluetooth_connect(
             [self EXCEPT !.bt_address = Str(user_input.address),
                          !.bt_name = Str(Advertised[user_input.address])],
             None, env)
    ELSE LET found == {a \in env.advertising :
                          /\ a \notin env.current_addresses
                          /\ a \notin self.discovered_bt_devices
                          /\ StartsWithHwZ(Advertised[a])}
             self1 == [self EXCEPT !.discovered_bt_devices = @ \cup found]
         IN  IF Cardinality(self1.discovered_bt_devices) = 0
             THEN Abort(self1, "no_devices_found", <<>>)
             ELSE ShowForm(self1, "select_bluetooth_device", NoErrors, <<>>)

\* a.is_bt()
is_bt(a) == a.v.connectivity = Str("BT")

\* The ids the select_cloud_device form offers
CloudOptions(self) ==
    IF self.cloud_appliances = None THEN {}
    ELSE {self.cloud_appliances.v[i].v.applianceId.v :
             i \in {j \in DOMAIN self.cloud_appliances.v :
                       ~is_bt(self.cloud_appliances.v[j])}}

\* Lines 275-290 of async_step_select_cloud_device: load the appliances, show the form
SelectCloudDeviceForm(self, errors, calls, env) ==
    LET fetch == self.cloud_appliances = None
        calls1 == IF fetch THEN Append(calls, Call("fetch_appliance_infos", env.infos))
                  ELSE calls
        errors1 == IF fetch /\ env.infos.exc = "RequestError" THEN "cannot_connect"
                   ELSE errors
        self1 == IF ~fetch THEN self
                 ELSE IF env.infos.exc = "RequestError"
                      THEN [self EXCEPT !.cloud_appliances = List(<<>>)]
                      ELSE [self EXCEPT !.cloud_appliances = env.infos.v]
    IN  IF Len(self1.cloud_appliances.v) = 0
        THEN Abort(self1, "no_devices_found", calls1)
        ELSE ShowForm(self1, "select_cloud_device", errors1, calls1)

\* The fallback entry built without config_missing=True (the field's default, False)
CloudLocalizationOnly_DefaultFlag(self, appliance_id, appliance, calls, env) ==
    LET c1 == Append(calls, Call("fetch_base_contents_index", env.index))
        c2 == Append(c1, CallV("fetch_localizations_contents_index", env.localization))
    IN  IF env.index.exc = "RequestError"
        THEN SelectCloudDeviceForm(self, "cannot_connect", c1, env)
        ELSE IF env.localization.exc = "RequestError"
        THEN SelectCloudDeviceForm(self, "cannot_connect", c2, env)
        ELSE CreateEntry(self, appliance.v.name,
                 EntryData(Obj("IdExchangeResponse", [appId |-> Str(appliance_id)]),
                           Dict([localization |-> env.localization.v, config |-> None]),
                           appliance, self.cloud_config, FALSE),
                 c2)

\* _fetch_localization_only and the entry of the except RequestError branch
CloudLocalizationOnly(self, appliance_id, appliance, calls, env) ==
    LET c1 == Append(calls, Call("fetch_base_contents_index", env.index))
        c2 == Append(c1, CallV("fetch_localizations_contents_index", env.localization))
    IN  IF env.index.exc = "RequestError"
        THEN SelectCloudDeviceForm(self, "cannot_connect", c1, env)
        ELSE IF env.localization.exc = "RequestError"
        THEN SelectCloudDeviceForm(self, "cannot_connect", c2, env)
        ELSE CreateEntry(self, appliance.v.name,
                 EntryData(Obj("IdExchangeResponse", [appId |-> Str(appliance_id)]),
                           Dict([localization |-> env.localization.v, config |-> None]),
                           appliance, self.cloud_config, TRUE),
                 c2)

\* async_step_select_cloud_device(user_input)
async_step_select_cloud_device(self, user_input, env) ==
    IF user_input = None THEN SelectCloudDeviceForm(self, NoErrors, <<>>, env)
    ELSE IF env.configured THEN Abort(self, "already_configured", <<>>)
    ELSE LET appliance_id == user_input.id
             appliance == FindAppliance(self.cloud_appliances, Str(appliance_id))
             c1 == <<Call("fetch_appliance_contents", env.contents)>>
         IN  IF env.contents.exc = "RequestError"
             THEN CloudLocalizationOnly(self, appliance_id, appliance, c1, env)
             ELSE LET contents == env.contents.v
                      _has_config == has_real_config(contents)
                  IN  CreateEntry(self, appliance.v.name,
                          EntryData(Obj("IdExchangeResponse",
                                        [appId |-> Str(appliance_id)]),
                                    contents, appliance, self.cloud_config,
                                    ~_has_config),
                          c1)

\* async_step_provide_cloud_credentials(user_input)
async_step_provide_cloud_credentials(self, user_input, env) ==
    IF user_input = None
    THEN ShowForm(self, "provide_cloud_credentials", NoErrors, <<>>)
    ELSE LET c1 == <<Call("login", env.login)>>
         IN  IF env.login.exc # "none"
             THEN ShowForm(self, "provide_cloud_credentials", ErrorFor(env.login.exc), c1)
             ELSE LET self1 ==
                          [self EXCEPT
                              !.cloud_config =
                                  Obj("CloudConfig",
                                      [username |-> Str(user_input.username),
                                       password |-> Str(user_input.password)]),
                              !.cloud_credentials = env.login.v]
                      next == async_step_select_cloud_device(self1, None, env)
                  IN  [next EXCEPT !.result.calls = c1 \o @]

(* ------------------------------ platforms ----------------------------- *)

Control(cls, key) == [cls |-> cls, key |-> key]

\* The controls generate_controls_from_config can produce, in its order
AllControls ==
    <<Control("WriteBooleanControl", "remote_control"),
      Control("BooleanBitmaskControl", "door"),
      Control("BooleanCompareControl", "child_lock"),
      Control("TimeControl", "duration"),
      Control("EnumControl", "program"),
      Control("NumericControl", "temp"),
      Control("NumericControl", "spin"),
      Control("DebugControl", "debug"),
      Control("SummedTimestampControl", "end_time"),
      Control("StateAwareRemainingTimeControl", "remaining"),
      Control("WriteEnumControl", "select")>>

\* Runs of at most MaxControls consecutive controls of AllControls
ControlLists ==
    {SubSeq(AllControls, w[1], w[1] + w[2] - 1) :
        w \in {x \in (1..Len(AllControls)) \X (0..MaxControls) :
                  x[1] + x[2] - 1 <= Len(AllControls)}}

\* generate_controls_from_config(entry_id, config) returns controls or raises
GenerateOutcomes == {Returns(l) : l \in ControlLists} \cup {Raises("Exception")}

\* [c for c in controls if isinstance(c, classes)]
RECURSIVE FilterControls(_, _)
FilterControls(controls, classes) ==
    IF controls = <<>> THEN <<>>
    ELSE (IF Head(controls).cls \in classes THEN <<Head(controls)>> ELSE <<>>)
         \o FilterControls(Tail(controls), classes)

Entity(cls, key) == [cls |-> cls, key |-> key]

Entities(cls, controls) == [i \in DOMAIN controls |-> Entity(cls, controls[i].key)]

\* The keys of FUNCTION_SENSORS, in definition order
FUNCTION_SENSORS ==
    <<"STT_CO2", "STT_HUMIDITY", "STT_TEMPERATURE", "STT_RAW_HUMIDITY",
      "STT_RAW_TEMPERATURE", "STT_CO2_LEVEL", "STT_HEALTH_STATUS",
      "ATR_BRIGHTNESS", "ATR_SLEEP_MODE">>

SensorControlClasses ==
    {"TimeControl", "EnumControl", "NumericControl", "DebugControl",
     "SummedTimestampControl", "StateAwareRemainingTimeControl"}

SwitchControlClasses == {"WriteBooleanControl"}

BinarySensorControlClasses == {"BooleanBitmaskControl", "BooleanCompareControl"}

\* entry.data.get("config_missing") is True
ConfigMissingIsTrue(e) == Get(e.data, "config_missing", None) = Bool(TRUE)

\* What one async_setup_entry did (the model follows one platform per loaded entry)
SetupDone(platform, built, gen_called, gen_raised, added, raised) ==
    [platform |-> platform, built |-> built, gen_called |-> gen_called,
     gen_raised |-> gen_raised, added |-> added, raised |-> raised]

\* sensor.async_setup_entry without the return that ends the config_missing branch
sensor_async_setup_entry_NoReturn(e, gen) ==
    LET data == build_entry_data(e)
        raw == IF ConfigMissingIsTrue(e)
               THEN <<Entity("HomeWhizRawLenSensor", "RAW_LEN"),
                      Entity("HomeWhizRawHexHeadSensor", "RAW_HEX_HEAD")>>
                    \o [i \in DOMAIN FUNCTION_SENSORS |->
                           Entity("HomeWhizFunctionSensor", FUNCTION_SENSORS[i])]
               ELSE <<>>
    IN  IF ~data.ok THEN SetupDone("sensor", data, FALSE, FALSE, <<>>, TRUE)
        ELSE IF gen.exc # "none"
        THEN SetupDone("sensor", data, TRUE, TRUE, raw, TRUE)
        ELSE SetupDone("sensor", data, TRUE, FALSE,
                 raw \o Entities("HomeWhizSensorEntity",
                                 FilterControls(gen.v, SensorControlClasses)),
                 FALSE)

\* sensor.async_setup_entry
sensor_async_setup_entry(e, gen) ==
    LET data == build_entry_data(e)
    IN  IF ~data.ok THEN SetupDone("sensor", data, FALSE, FALSE, <<>>, TRUE)
        ELSE IF ConfigMissingIsTrue(e)
        THEN LET raw == <<Entity("HomeWhizRawLenSensor", "RAW_LEN"),
                          Entity("HomeWhizRawHexHeadSensor", "RAW_HEX_HEAD")>>
                 function_sensors ==
                     [i \in DOMAIN FUNCTION_SENSORS |->
                         Entity("HomeWhizFunctionSensor", FUNCTION_SENSORS[i])]
             IN  SetupDone("sensor", data, FALSE, FALSE, raw \o function_sensors, FALSE)
        ELSE IF gen.exc # "none"
        THEN SetupDone("sensor", data, TRUE, TRUE, <<>>, TRUE)
        ELSE SetupDone("sensor", data, TRUE, FALSE,
                 Entities("HomeWhizSensorEntity",
                          FilterControls(gen.v, SensorControlClasses)),
                 FALSE)

\* switch.async_setup_entry without the config_missing check
switch_async_setup_entry_NoSkip(e, gen) ==
    LET data == build_entry_data(e)
    IN  IF ~data.ok THEN SetupDone("switch", data, FALSE, FALSE, <<>>, TRUE)
        ELSE IF gen.exc # "none"
        THEN SetupDone("switch", data, TRUE, TRUE, <<>>, FALSE)
        ELSE SetupDone("switch", data, TRUE, FALSE,
                 Entities("HomeWhizSwitchEntity",
                          FilterControls(gen.v, SwitchControlClasses)),
                 FALSE)

\* switch.async_setup_entry
switch_async_setup_entry(e, gen) ==
    LET data == build_entry_data(e)
    IN  IF ~data.ok THEN SetupDone("switch", data, FALSE, FALSE, <<>>, TRUE)
        ELSE IF ConfigMissingIsTrue(e)
        THEN SetupDone("switch", data, FALSE, FALSE, <<>>, FALSE)
        ELSE IF gen.exc # "none"
        THEN SetupDone("switch", data, TRUE, TRUE, <<>>, FALSE)
        ELSE SetupDone("switch", data, TRUE, FALSE,
                 Entities("HomeWhizSwitchEntity",
                          FilterControls(gen.v, SwitchControlClasses)),
                 FALSE)

\* binary_sensor.async_setup_entry
binary_sensor_async_setup_entry(e, gen) ==
    LET data == build_entry_data(e)
    IN  IF ~data.ok THEN SetupDone("binary_sensor", data, FALSE, FALSE, <<>>, TRUE)
        ELSE IF ConfigMissingIsTrue(e)
        THEN SetupDone("binary_sensor", data, FALSE, FALSE, <<>>, FALSE)
        ELSE IF gen.exc # "none"
        THEN SetupDone("binary_sensor", data, TRUE, TRUE, <<>>, FALSE)
        ELSE SetupDone("binary_sensor", data, TRUE, FALSE,
                 Entities("HomeWhizBinarySensorEntity",
                          FilterControls(gen.v, BinarySensorControlClasses)),
                 FALSE)

(* ------------------- entries written by earlier versions -------------- *)

StoredIds == Dict([appId |-> Str("a2")])

ValidConfigDict == Dict([program |-> Dict([strKey |-> Str("program")])])

\* A stored configuration whose program is not a mapping: from_dict raises
BrokenConfigDict == Dict([program |-> IntV(7)])

\* The shapes of entry.data["contents"] found in storage
StoredContentsShapes ==
    {Dict([config |-> ValidConfigDict, localization |-> Localization]),
     Dict([config |-> BrokenConfigDict, localization |-> Localization]),
     Dict([config |-> None, localization |-> Localization]),
     Dict([localization |-> Localization]),
     Dict([config |-> List(<<>>)]),
     None,
     Str("contents")}

\* Entry data persisted before the config_missing flag existed, or with it
StoredEntries ==
    {Dict([ids |-> StoredIds, contents |-> c, appliance_info |-> ai,
           cloud_config |-> cc]) :
        c \in StoredContentsShapes,
        ai \in {None, asdict(PurifierInfo)},
        cc \in {None, Dict([username |-> Str("user"), password |-> Str("secret")])}}
    \cup
    {Dict([ids |-> StoredIds, contents |-> c, appliance_info |-> None,
           cloud_config |-> None, config_missing |-> Bool(m)]) :
        c \in StoredContentsShapes, m \in BOOLEAN}

(* ------------------------------- state -------------------------------- *)

NoEntry == [t |-> "None"]

NoSetup == [platform |-> "none"]

NoResult == [type |-> "none", handler |-> "none", submitted |-> FALSE]

StoredEntry(title, data) == [t |-> "entry", title |-> title, data |-> data]

Init ==
    /\ flow = NewFlowObject
    /\ result = NoResult
    /\ entry = NoEntry
    /\ orig = None
    /\ setup = NoSetup

\* Home Assistant takes the step's result; a create_entry result is persisted
\* (the result also records which step handled the request and whether it
\* carried user input)
Apply(handler, submitted, out) ==
    /\ flow' = out.self
    /\ result' = out.result @@ [handler |-> handler, submitted |-> submitted]
    /\ IF out.result.type = "create_entry"
       THEN /\ entry' = StoredEntry(out.result.title, out.result.data)
            /\ orig' = out.data
       ELSE UNCHANGED <<entry, orig>>
    /\ UNCHANGED setup

FlowOpen(step) == flow.step = step /\ entry = NoEntry

StepUser == FlowOpen("init") /\ Apply("user", FALSE, async_step_user(flow))

StepBluetooth ==
    /\ FlowOpen("init")
    /\ \E address \in DOMAIN Advertised, configured \in BOOLEAN :
          Apply("bluetooth", TRUE, async_step_bluetooth(flow, address, [configured |-> configured]))

MenuSelectBluetoothDevice ==
    /\ FlowOpen("user")
    /\ \E adv \in SUBSET (DOMAIN Advertised), cur \in SUBSET (DOMAIN Advertised) :
          Apply("select_bluetooth_device", FALSE,
                async_step_select_bluetooth_device(flow, None,
                    [advertising |-> adv, current_addresses |-> cur]))

SubmitSelectBluetoothDevice ==
    /\ FlowOpen("select_bluetooth_device")
    /\ \E address \in flow.discovered_bt_devices :
          Apply("select_bluetooth_device", TRUE,
                async_step_select_bluetooth_device(flow, [address |-> address],
                    [configured |-> FALSE]))

\* A call that fails leaves the later calls of the try body unmade
After(prev, outcomes) == IF prev.exc = "none" THEN outcomes ELSE {Raises("not_called")}

SubmitBluetoothConnect ==
    /\ FlowOpen("bluetooth_connect")
    /\ \E ui \in UserInputs, configured \in BOOLEAN, l \in LoginOutcomes :
       \E x \in After(l, IdExchangeOutcomes) :
       \E c \in After(x, ContentsOutcomes) :
       \E i \in After(c, InfosOutcomes) :
          Apply("bluetooth_connect", TRUE,
                async_step_bluetooth_connect(flow, ui,
                    [configured |-> configured, login |-> l, idx |-> x,
                     contents |-> c, infos |-> i]))

MenuProvideCloudCredentials ==
    /\ FlowOpen("user")
    /\ Apply("provide_cloud_credentials", FALSE,
             async_step_provide_cloud_credentials(flow, None, [login |-> None]))

SubmitProvideCloudCredentials ==
    /\ FlowOpen("provide_cloud_credentials")
    /\ \E ui \in UserInputs, l \in LoginOutcomes :
       \E i \in After(l, InfosOutcomes) :
          Apply("provide_cloud_credentials", TRUE,
                async_step_provide_cloud_credentials(flow, ui,
                    [login |-> l, infos |-> i]))

SubmitSelectCloudDevice ==
    /\ FlowOpen("select_cloud_device")
    /\ \E id \in CloudOptions(flow), configured \in BOOLEAN, c \in ContentsOutcomes :
       \E x \in (IF c.exc = "none" THEN {Raises("not_called")} ELSE IndexOutcomes) :
       \E loc \in After(x, LocalizationOutcomes) :
          Apply("select_cloud_device", TRUE,
                async_step_select_cloud_device(flow, [id |-> id],
                    [configured |-> configured, contents |-> c, index |-> x,
                     localization |-> loc, infos |-> Raises("not_called")]))

\* Home Assistant starts with an entry already in storage
LoadStoredEntry ==
    /\ FlowOpen("init")
    /\ \E data \in StoredEntries :
          /\ entry' = StoredEntry("Purifier", data)
          /\ flow' = [flow EXCEPT !.step = "done"]
    /\ UNCHANGED <<result, orig, setup>>

SetupSensor ==
    /\ entry # NoEntry
    /\ setup = NoSetup
    /\ \E gen \in GenerateOutcomes : setup' = sensor_async_setup_entry(entry, gen)
    /\ UNCHANGED <<flow, result, entry, orig>>

SetupSwitch ==
    /\ entry # NoEntry
    /\ setup = NoSetup
    /\ \E gen \in GenerateOutcomes : setup' = switch_async_setup_entry(entry, gen)
    /\ UNCHANGED <<flow, result, entry, orig>>

SetupBinarySensor ==
    /\ entry # NoEntry
    /\ setup = NoSetup
    /\ \E gen \in GenerateOutcomes :
          setup' = binary_sensor_async_setup_entry(entry, gen)
    /\ UNCHANGED <<flow, result, entry, orig>>

\* A finished flow is discarded and another one is started
NewFlow ==
    /\ flow.step = "done"
    /\ flow' = NewFlowObject
    /\ result' = NoResult
    /\ entry' = NoEntry
    /\ orig' = None
    /\ setup' = NoSetup

Next ==
    \/ StepUser
    \/ StepBluetooth
    \/ MenuSelectBluetoothDevice
    \/ SubmitSelectBluetoothDevice
    \/ SubmitBluetoothConnect
    \/ MenuProvideCloudCredentials
    \/ SubmitProvideCloudCredentials
    \/ SubmitSelectCloudDevice
    \/ LoadStoredEntry
    \/ SetupSensor
    \/ SetupSwitch
    \/ SetupBinarySensor
    \/ NewFlow

Spec == Init /\ [][Next]_vars

(* ------------------------------- claims ------------------------------- *)

SetupRan == setup.platform # "none"

\* The value stored under entry.data["contents"]
StoredContents == entry.data.v["contents"]

\* The stored contents do not deserialize to a configuration: no dict, no
\* config dict inside, or a config dict dacite rejects
ContentsUnusable ==
    \/ StoredContents.t # "dict"
    \/ "config" \notin DOMAIN StoredContents.v
    \/ StoredContents.v["config"].t # "dict"
    \/ ~from_dict("ApplianceConfiguration", StoredContents.v["config"]).ok

\* The configuration with empty appliances, functions and controls
IsMinimalConfiguration(c) ==
    /\ c.t = "obj"
    /\ c.cls = "ApplianceConfiguration"
    /\ c.v.appliances = List(<<>>)
    /\ c.v.functions = List(<<>>)
    /\ c.v.controls = List(<<>>)
    /\ \A f \in {"program", "subPrograms", "monitorings", "deviceStates", "commands"} :
          c.v[f] = None

\* C1: whatever shape entry.data["contents"] has in storage, build_entry_data
\* returns (no exception leaves it) an EntryData whose contents is an
\* ApplianceContents object; when the stored contents do not deserialize, its
\* config is the minimal configuration.
C1_ContentsAlwaysApplianceContents ==
    SetupRan =>
        /\ setup.built.ok
        /\ setup.built.v.v.contents.t = "obj"
        /\ setup.built.v.v.contents.cls = "ApplianceContents"
        /\ ContentsUnusable => IsMinimalConfiguration(setup.built.v.v.contents.v.config)
        /\ ~ContentsUnusable =>
              setup.built.v.v.contents.v.config =
                  from_dict("ApplianceConfiguration", StoredContents.v["config"]).v

\* C1 witness: an entry whose stored config dict is rejected was rebuilt
C1_Witness ==
    /\ SetupRan
    /\ StoredContents.t = "dict"
    /\ "config" \in DOMAIN StoredContents.v
    /\ StoredContents.v["config"] = BrokenConfigDict
    /\ setup.built.ok

\* C2: for an entry the config flow stored as asdict(data), build_entry_data
\* gives back ids, cloud_config, appliance_info and config_missing of data; an
\* entry stored without the config_missing key is rebuilt with False.
C2_RoundTrip ==
    SetupRan =>
        /\ orig # None =>
              /\ setup.built.ok
              /\ setup.built.v.v.ids = orig.v.ids
              /\ setup.built.v.v.cloud_config = orig.v.cloud_config
              /\ setup.built.v.v.appliance_info = orig.v.appliance_info
              /\ setup.built.v.v.config_missing = orig.v.config_missing
        /\ "config_missing" \notin DOMAIN entry.data.v =>
              /\ setup.built.ok
              /\ setup.built.v.v.config_missing = Bool(FALSE)

\* C2 witness: a cloud entry (cloud_config and appliance_info set) made by the
\* flow was rebuilt
C2_Witness ==
    /\ SetupRan
    /\ orig # None
    /\ orig.v.cloud_config # None
    /\ orig.v.appliance_info # None
    /\ orig.v.config_missing = Bool(TRUE)
    /\ setup.built.ok

\* The stored flag is the boolean True
StoredFlagTrue ==
    "config_missing" \in DOMAIN entry.data.v /\ entry.data.v["config_missing"] = Bool(TRUE)

\* C3: with stored config_missing True, the switch and binary_sensor setups add
\* no entity and do not call generate_controls_from_config.
C3_ReadOnlyNoSwitches ==
    (SetupRan /\ setup.platform \in {"switch", "binary_sensor"} /\ StoredFlagTrue) =>
        /\ setup.added = <<>>
        /\ ~setup.gen_called

\* C3 witness: the switch platform was set up for a read-only entry
C3_Witness ==
    /\ SetupRan
    /\ setup.platform = "switch"
    /\ StoredFlagTrue
    /\ ~setup.raised

RawAndFunctionClasses ==
    {"HomeWhizRawLenSensor", "HomeWhizRawHexHeadSensor", "HomeWhizFunctionSensor"}

FunctionKeys ==
    {"STT_CO2", "STT_HUMIDITY", "STT_TEMPERATURE", "STT_RAW_HUMIDITY",
     "STT_RAW_TEMPERATURE", "STT_CO2_LEVEL", "STT_HEALTH_STATUS",
     "ATR_BRIGHTNESS", "ATR_SLEEP_MODE"}

AddedOf(cls) == {i \in DOMAIN setup.added : setup.added[i].cls = cls}

\* C4: the sensor setup adds the two raw sensors and the nine function sensors
\* exactly when stored config_missing is True, then without calling
\* generate_controls_from_config; otherwise it adds control sensors only.
C4_RawAndFunctionSensors ==
    (SetupRan /\ setup.platform = "sensor") =>
        IF StoredFlagTrue
        THEN /\ ~setup.gen_called
             /\ Len(setup.added) = 11
             /\ {setup.added[i].key : i \in AddedOf("HomeWhizRawLenSensor")} = {"RAW_LEN"}
             /\ {setup.added[i].key : i \in AddedOf("HomeWhizRawHexHeadSensor")}
                   = {"RAW_HEX_HEAD"}
             /\ Cardinality(AddedOf("HomeWhizFunctionSensor")) = 9
             /\ {setup.added[i].key : i \in AddedOf("HomeWhizFunctionSensor")}
                   = FunctionKeys
        ELSE \A i \in DOMAIN setup.added :
                /\ setup.added[i].cls \notin RawAndFunctionClasses
                /\ setup.added[i].cls = "HomeWhizSensorEntity"
                /\ setup.gen_called

\* C4 witness: the sensor platform was set up for a read-only entry
C4_Witness ==
    /\ SetupRan
    /\ setup.platform = "sensor"
    /\ StoredFlagTrue
    /\ Len(setup.added) = 11

\* C5: in each of the three platform setups, when
\* generate_controls_from_config raises, the setup swallows the exception, adds
\* nothing and returns normally.
C5_SetupSwallowsEverywhere ==
    (SetupRan /\ setup.gen_raised) => (~setup.raised /\ setup.added = <<>>)

\* The calls of the step that produced the result
CallNamed(name) == {i \in DOMAIN result.calls : result.calls[i][1] = name}

CallOk(name) == \E i \in CallNamed(name) : result.calls[i][2] = "none"

CallFailed(name, exc) == \E i \in CallNamed(name) : result.calls[i][2] = exc

\* has_real_config as the claim words it, on the contents the flow fetched
ClaimedRealConfig(contents) ==
    LET config == contents.v.config.v
    IN  \/ config.program # None
        \/ (config.subPrograms.t = "list" /\ config.subPrograms.v # <<>>)
        \/ (config.monitorings.t = "list" /\ config.monitorings.v # <<>>)
        \/ config.deviceStates # None
        \/ config.commands # None

\* C6: an entry created from fetched appliance contents (Bluetooth or cloud
\* path) stores config_missing = not has_real_config(contents).
C6_FlagIsNotHasRealConfig ==
    (result.type = "create_entry" /\ CallOk("fetch_appliance_contents")) =>
        /\ result.handler \in {"bluetooth_connect", "select_cloud_device"}
        /\ result.data.v["config_missing"] = Bool(~ClaimedRealConfig(orig.v.contents))
        /\ entry.data = result.data

\* C6 witness: an entry was created whose only configuration is an empty
\* commands list
C6_Witness ==
    /\ result.type = "create_entry"
    /\ CallOk("fetch_appliance_contents")
    /\ orig.v.contents.v.config.v.commands = List(<<>>)
    /\ orig.v.contents.v.config.v.program = None
    /\ orig.v.contents.v.config.v.deviceStates = None
    /\ orig.v.contents.v.config.v.subPrograms = List(<<>>)
    /\ orig.v.contents.v.config.v.monitorings = None

\* The localization both fetches of _fetch_localization_only delivered
LocalizationFetched ==
    /\ CallOk("fetch_base_contents_index")
    /\ CallOk("fetch_localizations_contents_index")

\* C7: when fetch_appliance_contents fails with RequestError in
\* select_cloud_device, an entry is created iff the localization fetch succeeds,
\* with contents {"localization": fetched, "config": None} and config_missing
\* True; otherwise no entry is created and the form comes back with
\* cannot_connect.
C7_CloudFallback ==
    (result.handler = "select_cloud_device" /\ result.submitted
        /\ CallFailed("fetch_appliance_contents", "RequestError")) =>
        IF LocalizationFetched
        THEN /\ result.type = "create_entry"
             /\ entry # NoEntry
             /\ entry.data = result.data
             /\ \A i \in CallNamed("fetch_localizations_contents_index") :
                   result.data.v["contents"] =
                       Dict([localization |-> result.calls[i][3], config |-> None])
             /\ result.data.v["config_missing"] = Bool(TRUE)
        ELSE /\ \/ CallFailed("fetch_base_contents_index", "RequestError")
                \/ CallFailed("fetch_localizations_contents_index", "RequestError")
             /\ entry = NoEntry
             /\ result.type = "form"
             /\ result.step_id = "select_cloud_device"
             /\ result.errors = "cannot_connect"

\* C7 witness: the fallback created an entry from the localization alone
C7_Witness ==
    /\ result.handler = "select_cloud_device"
    /\ CallFailed("fetch_appliance_contents", "RequestError")
    /\ LocalizationFetched
    /\ result.type = "create_entry"

AnyCallFailed(exc) == \E i \in DOMAIN result.calls : result.calls[i][2] = exc

\* C8: in bluetooth_connect and provide_cloud_credentials a LoginError gives the
\* same form with invalid_auth and a RequestError gives it with cannot_connect,
\* and no entry; bluetooth_connect creates an entry only after login, id
\* exchange, contents fetch and infos fetch all succeeded;
\* provide_cloud_credentials reaches select_cloud_device only after a successful
\* login, with cloud config and credentials recorded.
C8_CredentialSteps ==
    /\ (result.handler = "bluetooth_connect" /\ result.submitted) =>
          /\ AnyCallFailed("LoginError") =>
                /\ result.type = "form"
                /\ result.step_id = "bluetooth_connect"
                /\ result.errors = "invalid_auth"
                /\ entry = NoEntry
          /\ AnyCallFailed("RequestError") =>
                /\ result.type = "form"
                /\ result.step_id = "bluetooth_connect"
                /\ result.errors = "cannot_connect"
                /\ entry = NoEntry
          /\ (result.type = "create_entry" \/ entry # NoEntry) =>
                result.calls = <<<<"login", "none">>,
                                 <<"make_id_exchange_request", "none">>,
                                 <<"fetch_appliance_contents", "none">>,
                                 <<"fetch_appliance_infos", "none">>>>
    /\ (result.handler = "provide_cloud_credentials" /\ result.submitted) =>
          /\ entry = NoEntry
          /\ CallFailed("login", "LoginError") =>
                /\ result.type = "form"
                /\ result.step_id = "provide_cloud_credentials"
                /\ result.errors = "invalid_auth"
          /\ CallFailed("login", "RequestError") =>
                /\ result.type = "form"
                /\ result.step_id = "provide_cloud_credentials"
                /\ result.errors = "cannot_connect"
          /\ (flow.step = "select_cloud_device" \/ CallNamed("fetch_appliance_infos") # {}) =>
                /\ CallOk("login")
                /\ flow.cloud_config =
                      Obj("CloudConfig",
                          [username |-> Str("user"), password |-> Str("secret")])
                /\ flow.cloud_credentials = Str("token")

\* C8 witness: bluetooth_connect came back with cannot_connect after the
\* appliance-info fetch, the last of the four calls, failed
C8_Witness ==
    /\ result.handler = "bluetooth_connect"
    /\ result.submitted
    /\ CallFailed("fetch_appliance_infos", "RequestError")
    /\ result.type = "form"
    /\ result.errors = "cannot_connect"

====
